---- MODULE Spec2Model ----
(***************************************************************************)
(* Model of the framebuffer back-end of CircleGFX (src/GFX.cpp, src/GFX.h): *)
(* the multi-buffer manager (enableMultiBuffer, swapBuffers, select*,      *)
(* clearBuffer, attach/detachExternalBuffer), the pixel store it draws     *)
(* into, and the C heap it allocates from.                                 *)
(*                                                                         *)
(* Memory is a set of blocks: the hardware surface HW, one caller-supplied *)
(* buffer EXT, and the heap blocks HeapBlock.  A heap block is live while  *)
(* it is in `heap`; a pointer to a heap block that is not live is          *)
(* dangling.  WILD stands for an indeterminate non-null pointer value.     *)
(* A call that does something the language leaves undefined does not       *)
(* return: it ends in a state whose `ub` names what happened, and no       *)
(* outcome is chosen for it.  What a call leaves behind is stated of the   *)
(* calls that return.                                                      *)
(***************************************************************************)
EXTENDS Integers, Sequences, FiniteSets, TLC

\* ---------------------------------------------------------------- bounds
Width       == 2   \* surface width in pixels  (CBcmFrameBuffer::GetWidth)
Height      == 1   \* surface height in pixels (CBcmFrameBuffer::GetHeight)
MaxColor    == 1   \* pixel values are 0..MaxColor
MaxNum      == 4   \* enableMultiBuffer is called with 0..MaxNum
MaxIndex    == 3   \* buffer-index arguments are drawn from 0..MaxIndex
GarbageMax  == 3   \* an uninitialised uint8_t member holds 0..GarbageMax
MaxWrites   == 2   \* drawPixel and clearBuffer store pixels at most MaxWrites times
PaintWidth  == 5   \* width of the surface the drawing primitives paint on
PaintHeight == 5   \* its height
MaxPaints   == 1   \* at most MaxPaints calls of drawing primitives
MaxRadius   == 3   \* radii are drawn from 0..MaxRadius
TextWidth    == 8   \* surface width in pixels where text is written
TextHeight   == 9   \* surface height in pixels where text is written
MaxTexts     == 1   \* writeText calls in one behaviour
MaxText      == 2   \* bytes in the string of one writeText call
RotWidth     == 3   \* width of the framebuffer that is rotated
RotHeight    == 2   \* its height
MaxTurn      == 5   \* setRotation is called with 0..MaxTurn
PitchWidth   == 2   \* width of the framebuffer whose rows may be padded
PitchHeight  == 2   \* its height
MaxPad       == 1   \* pixels of padding at the end of each of its rows

\* ------------------------------------------------------ program constants
NumSlots    == 3   \* FrameBuffer m_buffers[3]
DefaultNum  == 2   \* numBuffers = 2 when out of range

Colors      == 0..MaxColor
Slots       == 0..(NumSlots - 1)

VARIABLES
    m_width,               \* surface width in pixels
    m_height,              \* surface height in pixels
    m_pitch,               \* bytes per row of the hardware surface
    m_rotation,            \* 0..3
    m_pFrameBuffer,        \* the framebuffer device: [width, height, pitch]
    m_buffers,             \* [Slots -> [pData, bOwned, bReady]]
    m_bufferCount,
    m_drawBufferIndex,
    m_displayBufferIndex,
    m_multiBufferEnabled,
    m_pBuffer,             \* active drawing pointer
    heap,                  \* live heap blocks
    mem,                   \* [Blocks -> pixel contents]
    ub,                    \* "none", or the undefined behaviour that occurred
    alive,                 \* FALSE once the destructor has run
    writes,                \* calls so far that stored pixels
    m_cursorX, m_cursorY,  \* text cursor
    m_textSizeX, m_textSizeY,
    m_textWrap,
    m_textColor, m_textBgColor,
    m_pFont,               \* NULL (built-in 5x8 font) or a custom font
    last                   \* the call just made: [op, arg, ok, ret]; arg is
                           \* numBuffers of enableMultiBuffer, the index of
                           \* detachExternalBuffer, the arguments of a
                           \* drawing or colour call; ok the boolean result
                           \* (of a void call: it did not return early);
                           \* ret the number a colour call returned

dims == <<m_width, m_height, m_pitch, m_rotation, m_pFrameBuffer>>

text == <<m_cursorX, m_cursorY, m_textSizeX, m_textSizeY, m_textWrap,
          m_textColor, m_textBgColor, m_pFont>>

vars == <<dims, text, m_buffers, m_bufferCount, m_drawBufferIndex, m_displayBufferIndex,
          m_multiBufferEnabled, m_pBuffer, heap, mem, ub, alive, writes, last>>

\* pixels per row of the hardware surface; 16-bit pixels
Stride      == m_pitch \div 2

\* ---------------------------------------------------------------- memory
NULL        == "null"
HW          == "hw"
EXT         == "ext"
WILD        == "wild"
\* the heap block malloc hands out for slot i: enableMultiBuffer is the only
\* caller of malloc, one call per slot, and a block is named after its slot
HeapBlock   == <<"h0", "h1", "h2">>
HeapAddrs   == {HeapBlock[k] : k \in 1..Len(HeapBlock)}
Blocks      == {HW, EXT} \cup HeapAddrs

\* number of 16-bit pixels a block holds: the surface has m_height rows of
\* Stride pixels; malloc'ed and attached buffers have width*height pixels
BlockSize(p) == IF p = HW THEN m_pFrameBuffer.height * Stride ELSE m_width * m_height

PixelCount   == m_width * m_height

NoSlot       == [pData |-> NULL, bOwned |-> FALSE, bReady |-> FALSE]

Filled(n, c) == [k \in 1..n |-> c]

\* the indeterminate contents of memory that is not allocated
Garbage(n)   == Filled(n, MaxColor)

\* what the blocks hold at first: the surface one colour, the caller's
\* buffer a pattern, unallocated heap whatever malloc will find there
InitMem ==
    [b \in Blocks |->
        IF b = HW THEN Filled(BlockSize(b), MaxColor)
        ELSE IF b = EXT THEN [k \in 1..BlockSize(b) |-> k % (MaxColor + 1)]
        ELSE Garbage(BlockSize(b))]

\* The members an operation works on, as one record.
Cur == [bufs |-> m_buffers, cnt |-> m_bufferCount,
        draw |-> m_drawBufferIndex, disp |-> m_displayBufferIndex,
        en |-> m_multiBufferEnabled, pbuf |-> m_pBuffer,
        heap |-> heap, mem |-> mem, ub |-> "none",
        ok |-> TRUE, mallocs |-> {}]

Fault(s, kind) == [s EXCEPT !.ub = kind]

\* What dereferencing p does: nothing wrong, or an undefined access.
PtrFault(p, h) ==
    IF p = NULL THEN "null_deref"
    ELSE IF p = WILD THEN "wild_deref"
    ELSE IF p \in HeapAddrs /\ p \notin h THEN "use_after_free"
    ELSE "none"

\* free(p) for a non-null p
Free(s, p) ==
    IF p \in s.heap
      THEN [s EXCEPT !.heap = @ \ {p}, !.mem[p] = Garbage(BlockSize(p))]
      ELSE Fault(s, IF p \in HeapAddrs THEN "double_free" ELSE "free_not_allocated")

\* malloc for slot i returns a block that is not live
Malloc(s, i) == CHOOSE b \in {HeapBlock[i + 1]} : b \notin s.heap

\* memset(p, 0, n*2) / the fill loop p[j] = color for j < n
Fill(s, p, n, c) ==
    IF PtrFault(p, s.heap) # "none" THEN Fault(s, PtrFault(p, s.heap))
    ELSE IF n > BlockSize(p) THEN Fault(s, "out_of_bounds")
    ELSE [s EXCEPT !.mem[p] = [k \in 1..BlockSize(p) |-> IF k <= n THEN c ELSE @[k]]]

\* (mutant: the copy stops one pixel short)
CopyShort(s, dst, src, n) ==
    IF PtrFault(src, s.heap) # "none" THEN Fault(s, PtrFault(src, s.heap))
    ELSE IF PtrFault(dst, s.heap) # "none" THEN Fault(s, PtrFault(dst, s.heap))
    ELSE [s EXCEPT !.mem[dst] = [k \in 1..BlockSize(dst) |->
                                    IF k < n THEN s.mem[src][k] ELSE @[k]]]

\* memcpy(dst, src, n*2)
Copy(s, dst, src, n) ==
    IF PtrFault(src, s.heap) # "none" THEN Fault(s, PtrFault(src, s.heap))
    ELSE IF PtrFault(dst, s.heap) # "none" THEN Fault(s, PtrFault(dst, s.heap))
    ELSE IF n > BlockSize(src) \/ n > BlockSize(dst) THEN Fault(s, "out_of_bounds")
    ELSE [s EXCEPT !.mem[dst] = [k \in 1..BlockSize(dst) |->
                                    IF k <= n THEN s.mem[src][k] ELSE @[k]]]

\* ------------------------------------------------------ enableMultiBuffer
\* (mutant: numBuffers is clamped to the nearest of 1 and 3)
ClampNumNearest(n) == IF n < 1 THEN 1 ELSE IF n > NumSlots THEN NumSlots ELSE n

\* numBuffers outside [1,3] becomes the default
ClampNum(n) == IF n < 1 \/ n > NumSlots THEN DefaultNum ELSE n

\* "Free any existing allocated buffers": slots 0 .. m_bufferCount-1
RECURSIVE FreeExisting(_, _)
FreeExisting(s, i) ==
    IF s.ub # "none" \/ i >= s.cnt THEN s
    ELSE IF i >= NumSlots THEN Fault(s, "slot_out_of_range")
    ELSE IF s.bufs[i].bOwned /\ s.bufs[i].pData # NULL
      THEN LET f == Free(s, s.bufs[i].pData)
           IN  FreeExisting(IF f.ub # "none" THEN f
                            ELSE [f EXCEPT !.bufs[i].pData = NULL,
                                           !.bufs[i].bOwned = FALSE], i + 1)
      ELSE FreeExisting(s, i + 1)

\* (mutant: the blocks allocated so far are forgotten, not freed)
RECURSIVE FreeAllocatedLeaks(_, _, _)
FreeAllocatedLeaks(s, j, i) ==
    IF j >= i THEN s
    ELSE FreeAllocatedLeaks([s EXCEPT !.bufs[j].pData = NULL], j + 1, i)

\* allocation i failed: free slots 0 .. i-1 again
RECURSIVE FreeAllocated(_, _, _)
FreeAllocated(s, j, i) ==
    IF s.ub # "none" \/ j >= i THEN s
    ELSE LET f == Free(s, s.bufs[j].pData)
         IN  FreeAllocated(IF f.ub # "none" THEN f
                           ELSE [f EXCEPT !.bufs[j].pData = NULL], j + 1, i)

\* "revert to single buffer"
RevertToSingle(s) ==
    [s EXCEPT !.cnt = 1,
              !.bufs[0].pData = s.pbuf,
              !.bufs[0].bOwned = FALSE,
              !.en = FALSE,
              !.ok = FALSE]

\* "Allocate new buffers": malloc number failAt returns nullptr
RECURSIVE AllocBuffers(_, _, _)
AllocBuffers(s, i, failAt) ==
    IF s.ub # "none" \/ i >= s.cnt THEN s
    ELSE IF i = failAt
      THEN LET f == FreeAllocated([s EXCEPT !.bufs[i].pData = NULL], 0, i)
           IN  IF f.ub # "none" THEN f ELSE RevertToSingle(f)
      ELSE LET b == Malloc(s, i)
               a == [s EXCEPT !.heap = @ \cup {b},
                              !.mallocs = @ \cup {b},
                              !.bufs[i] = [pData |-> b, bOwned |-> TRUE, bReady |-> FALSE]]
           IN  AllocBuffers(Fill(a, b, PixelCount, 0), i + 1, failAt)

EnableMultiBufferImpl(s, numBuffers, failAt) ==
    LET s1 == FreeExisting(s, 0)
        s2 == IF s1.ub # "none" THEN s1
              ELSE AllocBuffers([s1 EXCEPT !.cnt = ClampNum(numBuffers)], 0, failAt)
    IN  IF s2.ub # "none" \/ ~s2.ok THEN s2
        ELSE [s2 EXCEPT !.draw = 0, !.disp = 0, !.en = TRUE,
                        !.pbuf = s2.bufs[0].pData]

\* ------------------------------------------------------------ swapBuffers
\* (mutant: the round-robin always runs over all three slots)
NextDrawAllSlots(d, n) == IF n = 0 THEN 0 ELSE (d + 1) % NumSlots

\* "Advance draw buffer (round-robin)"
NextDraw(d, n) == (d + 1) % n

SwapBuffersImpl(s, autoclear) ==
    IF ~s.en THEN [s EXCEPT !.ok = FALSE]
    ELSE IF s.draw >= NumSlots THEN Fault(s, "slot_out_of_range")
    ELSE
    LET s1 == [s EXCEPT !.bufs[s.draw].bReady = TRUE, !.disp = s.draw]
        s2 == Copy(s1, HW, s1.bufs[s1.disp].pData, PixelCount)
        s3 == IF s2.ub # "none" THEN s2
              ELSE IF s2.cnt = 0 THEN Fault(s2, "division_by_zero")
              ELSE [s2 EXCEPT !.draw = NextDraw(s2.draw, s2.cnt)]
        s4 == IF s3.ub # "none" \/ ~autoclear THEN s3
              ELSE IF s3.draw >= NumSlots THEN Fault(s3, "slot_out_of_range")
              ELSE Fill(s3, s3.bufs[s3.draw].pData, PixelCount, 0)
    IN  IF s4.ub # "none" THEN s4
        ELSE IF s4.draw >= NumSlots THEN Fault(s4, "slot_out_of_range")
        ELSE [s4 EXCEPT !.pbuf = s4.bufs[s4.draw].pData]

\* ------------------------------------- selectDrawBuffer / selectDisplayBuffer
\* (mutant: the range check is off by one)
SelectRefusedOffByOne(s, bufferIndex) == ~s.en \/ bufferIndex > s.cnt

SelectRefused(s, bufferIndex) == ~s.en \/ bufferIndex >= s.cnt

SelectDrawBufferImpl(s, bufferIndex) ==
    IF SelectRefused(s, bufferIndex) THEN [s EXCEPT !.ok = FALSE]
    ELSE IF bufferIndex >= NumSlots THEN Fault(s, "slot_out_of_range")
    ELSE [s EXCEPT !.draw = bufferIndex, !.pbuf = s.bufs[bufferIndex].pData]

SelectDisplayBufferImpl(s, bufferIndex) ==
    IF SelectRefused(s, bufferIndex) THEN [s EXCEPT !.ok = FALSE]
    ELSE IF bufferIndex >= NumSlots THEN Fault(s, "slot_out_of_range")
    ELSE Copy([s EXCEPT !.disp = bufferIndex], HW,
              s.bufs[bufferIndex].pData, PixelCount)

\* ------------------------------------------------------------ clearBuffer
ClearOne(s, i, color) ==
    IF i < 0 \/ i >= NumSlots THEN Fault(s, "slot_out_of_range")
    ELSE IF s.bufs[i].pData # NULL
      THEN Fill(s, s.bufs[i].pData, PixelCount, color)
      ELSE s

RECURSIVE ClearAll(_, _, _)
ClearAll(s, i, color) ==
    IF s.ub # "none" \/ i >= s.cnt THEN s
    ELSE ClearAll(ClearOne(s, i, color), i + 1, color)

ClearBufferImpl(s, bufferIndex, color) ==
    IF bufferIndex = -1 THEN ClearAll(s, 0, color)
    ELSE IF bufferIndex = -2
      THEN IF s.draw >= NumSlots THEN Fault(s, "slot_out_of_range")
           ELSE Fill(s, s.bufs[s.draw].pData, PixelCount, 0)
    ELSE IF bufferIndex < s.cnt THEN ClearOne(s, bufferIndex, color)
    ELSE [s EXCEPT !.ok = FALSE]

\* ----------------------------------- attachExternalBuffer / detachExternalBuffer
AttachExternalBufferImpl(s, bufferIndex, pBuffer) ==
    IF bufferIndex >= NumSlots \/ pBuffer = NULL THEN [s EXCEPT !.ok = FALSE]
    ELSE
    LET s1 == IF s.bufs[bufferIndex].bOwned /\ s.bufs[bufferIndex].pData # NULL
                THEN Free(s, s.bufs[bufferIndex].pData) ELSE s
    IN  IF s1.ub # "none" THEN s1
        ELSE [s1 EXCEPT !.bufs[bufferIndex] =
                            [pData |-> pBuffer, bOwned |-> FALSE, bReady |-> FALSE],
                        !.cnt = IF bufferIndex >= @ THEN bufferIndex + 1 ELSE @]

\* (mutant: ownership is not looked at)
DetachableAlways(slot) == slot.bOwned \/ ~slot.bOwned

\* a slot may be detached only when the engine does not own it
Detachable(slot) == ~slot.bOwned

DetachExternalBufferImpl(s, bufferIndex) ==
    IF bufferIndex >= s.cnt THEN [s EXCEPT !.ok = FALSE]
    ELSE IF bufferIndex >= NumSlots THEN Fault(s, "slot_out_of_range")
    ELSE IF Detachable(s.bufs[bufferIndex])
      THEN [s EXCEPT !.bufs[bufferIndex].pData = NULL,
                     !.bufs[bufferIndex].bReady = FALSE]
      ELSE [s EXCEPT !.ok = FALSE]

\* ------------------------------------------- drawPixel -> writePixel -> setPixel
\* (mutant: the column check lets x = width through)
SetPixelImplWide(s, x, y, color) ==
    IF x < 0 \/ x > m_width \/ y < 0 \/ y >= m_height \/ s.pbuf = NULL
      THEN [s EXCEPT !.ok = FALSE]
    ELSE IF PtrFault(s.pbuf, s.heap) # "none" THEN Fault(s, PtrFault(s.pbuf, s.heap))
    ELSE IF y * Stride + x >= BlockSize(s.pbuf) THEN Fault(s, "out_of_bounds")
    ELSE [s EXCEPT !.mem[s.pbuf][y * Stride + x + 1] = color]

SetPixelImpl(s, x, y, color) ==
    IF x < 0 \/ x >= m_width \/ y < 0 \/ y >= m_height \/ s.pbuf = NULL
      THEN [s EXCEPT !.ok = FALSE]
    ELSE IF PtrFault(s.pbuf, s.heap) # "none" THEN Fault(s, PtrFault(s.pbuf, s.heap))
    ELSE IF y * Stride + x >= BlockSize(s.pbuf) THEN Fault(s, "out_of_bounds")
    ELSE [s EXCEPT !.mem[s.pbuf][y * Stride + x + 1] = color]

\* getPixel: the read of m_pBuffer[y * (m_pitch / 2) + x], or the early
\* return of 0 (ok is FALSE then)
GetPixelImpl(s, x, y) ==
    IF x < 0 \/ x >= m_width \/ y < 0 \/ y >= m_height \/ s.pbuf = NULL
      THEN [s EXCEPT !.ok = FALSE]
    ELSE IF PtrFault(s.pbuf, s.heap) # "none" THEN Fault(s, PtrFault(s.pbuf, s.heap))
    ELSE IF y * Stride + x >= BlockSize(s.pbuf) THEN Fault(s, "out_of_bounds")
    ELSE s

\* ------------------------------------------------------ integer arithmetic
\* conversion to int16_t: the value modulo 2^16, in -32768 .. 32767
I16(v) == ((v + 32768) % 65536) - 32768

\* C++ integer division truncates toward zero
Abs(v) == IF v < 0 THEN 0 - v ELSE v
Min(a, b) == IF a < b THEN a ELSE b
Max(a, b) == IF a > b THEN a ELSE b
CDiv(a, b) == IF (a < 0) = (b < 0) THEN Abs(a) \div Abs(b)
              ELSE 0 - (Abs(a) \div Abs(b))

\* a loop whose int16_t counter would have to pass 32767 never ends
Hang(s) == Fault(s, "no_return")

\* ------------------------------------------------------- drawing primitives
\* Every int16_t parameter receives its argument converted to int16_t.
WritePixelImpl(s, x, y, color) ==
    IF x < 0 \/ x >= m_width \/ y < 0 \/ y >= m_height THEN s
    ELSE LET p == SetPixelImpl(s, x, y, color)
         IN  IF p.ub # "none" THEN p ELSE [p EXCEPT !.ok = s.ok]

\* for (int16_t i = xs; i < xe; i++) writePixel(i, y, color)
RECURSIVE HLineLoop(_, _, _, _, _)
HLineLoop(s, i, xe, y, color) ==
    IF s.ub # "none" \/ i >= xe THEN s
    ELSE HLineLoop(WritePixelImpl(s, i, y, color), i + 1, xe, y, color)

WriteFastHLineImpl(s, x, y, w, color) ==
    IF y < 0 \/ y >= m_height THEN s
    ELSE HLineLoop(s, Max(0, x), Min(I16(m_width), I16(x + w)), y, color)

\* for (int16_t i = y; i < y + h; i++) writePixel(x, i, color)
RECURSIVE VLineLoop(_, _, _, _, _)
VLineLoop(s, x, i, ye, color) ==
    IF s.ub # "none" \/ i >= ye THEN s
    ELSE IF i = 32767 THEN Hang(WritePixelImpl(s, x, i, color))
    ELSE VLineLoop(WritePixelImpl(s, x, i, color), x, i + 1, ye, color)

WriteFastVLineImpl(s, x, y, h, color) == VLineLoop(s, x, y, y + h, color)

\* for (int16_t i = y; i < y + h; i++) writeFastHLine(x, i, w, color)
RECURSIVE FillRectLoop(_, _, _, _, _, _)
FillRectLoop(s, x, i, ye, w, color) ==
    IF s.ub # "none" \/ i >= ye THEN s
    ELSE IF i = 32767 THEN Hang(WriteFastHLineImpl(s, x, i, w, color))
    ELSE FillRectLoop(WriteFastHLineImpl(s, x, i, w, color), x, i + 1, ye, w, color)

WriteFillRectImpl(s, x, y, w, h, color) == FillRectLoop(s, x, y, y + h, w, color)

\* the while (true) loop of writeLine
RECURSIVE WriteLineLoop(_, _, _, _, _, _, _, _, _, _, _)
WriteLineLoop(s, x, y, err, x1, y1, dx, dy, sx, sy, color) ==
    LET p  == WritePixelImpl(s, x, y, color)
        e2 == I16(2 * err)
        stepx == e2 > 0 - dy
        stepy == e2 < dx
        err1 == IF stepx THEN I16(err - dy) ELSE err
        err2 == IF stepy THEN I16(err1 + dx) ELSE err1
    IN  IF p.ub # "none" \/ (x = x1 /\ y = y1) THEN p
        ELSE WriteLineLoop(p, IF stepx THEN I16(x + sx) ELSE x,
                              IF stepy THEN I16(y + sy) ELSE y,
                           err2, x1, y1, dx, dy, sx, sy, color)

WriteLineImpl(s, x0, y0, x1, y1, color) ==
    LET dx == I16(Abs(x1 - x0))
        dy == I16(Abs(y1 - y0))
        sx == IF x0 < x1 THEN 1 ELSE 0 - 1
        sy == IF y0 < y1 THEN 1 ELSE 0 - 1
    IN  WriteLineLoop(s, x0, y0, I16(dx - dy), x1, y1, dx, dy, sx, sy, color)

\* one turn of the midpoint loop: the next (f, ddx, ddy, x, y)
CircleStep(c) ==
    LET dec == c.f >= 0
        y1   == IF dec THEN I16(c.y - 1) ELSE c.y
        ddy1 == IF dec THEN I16(c.ddy + 2) ELSE c.ddy
        f1   == IF dec THEN I16(c.f + ddy1) ELSE c.f
        x1   == I16(c.x + 1)
        ddx1 == I16(c.ddx + 2)
    IN  [f |-> I16(f1 + ddx1), ddx |-> ddx1, ddy |-> ddy1, x |-> x1, y |-> y1]

\* int16_t f=1-r, ddx=1, ddy=-2*r, x=0, y=r
CircleStart(r) ==
    [f |-> I16(1 - r), ddx |-> 1, ddy |-> I16((0 - 2) * r), x |-> 0, y |-> r]

\* writePixel at each of a sequence of points
RECURSIVE WritePixels(_, _, _)
WritePixels(s, pts, color) ==
    IF s.ub # "none" \/ pts = <<>> THEN s
    ELSE WritePixels(WritePixelImpl(s, I16(Head(pts)[1]), I16(Head(pts)[2]), color),
                     Tail(pts), color)

RECURSIVE DrawCircleLoop(_, _, _, _, _)
DrawCircleLoop(s, x0, y0, c, color) ==
    IF s.ub # "none" \/ ~(c.x < c.y) THEN s
    ELSE LET n == CircleStep(c)
             x == n.x
             y == n.y
         IN  DrawCircleLoop(
                 WritePixels(s, << <<x0 + x, y0 + y>>, <<x0 - x, y0 + y>>,
                                   <<x0 + x, y0 - y>>, <<x0 - x, y0 - y>>,
                                   <<x0 + y, y0 + x>>, <<x0 - y, y0 + x>>,
                                   <<x0 + y, y0 - x>>, <<x0 - y, y0 - x>> >>, color),
                 x0, y0, n, color)

\* (mutant: only the midpoint loop paints)
DrawCircleLoopOnly(s, x0, y0, r, color) ==
    DrawCircleLoop(s, x0, y0, CircleStart(r), color)

DrawCircleImpl(s, x0, y0, r, color) ==
    DrawCircleLoop(
        WritePixels(s, << <<x0, y0 + r>>, <<x0, y0 - r>>,
                          <<x0 + r, y0>>, <<x0 - r, y0>> >>, color),
        x0, y0, CircleStart(r), color)

\* bit k (value 1, 2, 4, 8) of the corner mask
HasBit(c, k) == (c \div k) % 2 = 1

RECURSIVE DrawCircleHelperLoop(_, _, _, _, _, _)
DrawCircleHelperLoop(s, x0, y0, c, corner, color) ==
    IF s.ub # "none" \/ ~(c.x < c.y) THEN s
    ELSE LET n == CircleStep(c)
             x == n.x
             y == n.y
             pts == (IF HasBit(corner, 4)
                       THEN << <<x0 + x, y0 + y>>, <<x0 + y, y0 + x>> >> ELSE <<>>)
                    \o (IF HasBit(corner, 2)
                       THEN << <<x0 + x, y0 - y>>, <<x0 + y, y0 - x>> >> ELSE <<>>)
                    \o (IF HasBit(corner, 8)
                       THEN << <<x0 - y, y0 + x>>, <<x0 - x, y0 + y>> >> ELSE <<>>)
                    \o (IF HasBit(corner, 1)
                       THEN << <<x0 - y, y0 - x>>, <<x0 - x, y0 - y>> >> ELSE <<>>)
         IN  DrawCircleHelperLoop(WritePixels(s, pts, color), x0, y0, n, corner, color)

DrawCircleHelperImpl(s, x0, y0, r, corner, color) ==
    DrawCircleHelperLoop(s, x0, y0, CircleStart(r), corner, color)

\* writeFastVLine for each of a sequence of <<x, y, h>>
RECURSIVE WriteVLines(_, _, _)
WriteVLines(s, ls, color) ==
    IF s.ub # "none" \/ ls = <<>> THEN s
    ELSE WriteVLines(WriteFastVLineImpl(s, I16(Head(ls)[1]), I16(Head(ls)[2]),
                                        I16(Head(ls)[3]), color),
                     Tail(ls), color)

RECURSIVE FillCircleHelperLoop(_, _, _, _, _, _, _)
FillCircleHelperLoop(s, x0, y0, c, corner, delta, color) ==
    IF s.ub # "none" \/ ~(c.x < c.y) THEN s
    ELSE LET n == CircleStep(c)
             x == n.x
             y == n.y
             ls == (IF HasBit(corner, 1)
                      THEN << <<x0 + x, y0 - y, 2 * y + 1 + delta>>,
                              <<x0 + y, y0 - x, 2 * x + 1 + delta>> >> ELSE <<>>)
                   \o (IF HasBit(corner, 2)
                      THEN << <<x0 - x, y0 - y, 2 * y + 1 + delta>>,
                              <<x0 - y, y0 - x, 2 * x + 1 + delta>> >> ELSE <<>>)
         IN  FillCircleHelperLoop(WriteVLines(s, ls, color), x0, y0, n,
                                  corner, delta, color)

FillCircleHelperImpl(s, x0, y0, r, corner, delta, color) ==
    FillCircleHelperLoop(s, x0, y0, CircleStart(r), corner, delta, color)

\* (mutant: the radius is used as given)
ClampRadiusNot(w, h, r) == r

\* int16_t max_r = ((w < h) ? w : h) / 2; if (r > max_r) r = max_r;
ClampRadius(w, h, r) ==
    LET max_r == CDiv(Min(w, h), 2) IN IF r > max_r THEN max_r ELSE r

\* writeFastHLine for each of a sequence of <<x, y, w>>
RECURSIVE WriteHLines(_, _, _)
WriteHLines(s, ls, color) ==
    IF s.ub # "none" \/ ls = <<>> THEN s
    ELSE WriteHLines(WriteFastHLineImpl(s, I16(Head(ls)[1]), I16(Head(ls)[2]),
                                        I16(Head(ls)[3]), color),
                     Tail(ls), color)

\* drawCircleHelper for each of a sequence of <<x0, y0, corner>>
RECURSIVE DrawCorners(_, _, _, _)
DrawCorners(s, cs, r, color) ==
    IF s.ub # "none" \/ cs = <<>> THEN s
    ELSE DrawCorners(DrawCircleHelperImpl(s, I16(Head(cs)[1]), I16(Head(cs)[2]),
                                          r, Head(cs)[3], color),
                     Tail(cs), r, color)

DrawRoundRectImpl(s, x, y, w, h, radius, color) ==
    LET r  == ClampRadius(w, h, radius)
        s1 == WriteHLines(s, << <<x + r, y, w - 2 * r>>,
                                <<x + r, y + h - 1, w - 2 * r>> >>, color)
        s2 == WriteVLines(s1, << <<x, y + r, h - 2 * r>>,
                                 <<x + w - 1, y + r, h - 2 * r>> >>, color)
    IN  DrawCorners(s2, << <<x + r, y + r, 1>>,
                           <<x + w - r - 1, y + r, 2>>,
                           <<x + w - r - 1, y + h - r - 1, 4>>,
                           <<x + r, y + h - r - 1, 8>> >>, r, color)

FillRoundRectImpl(s, x, y, w, h, radius, color) ==
    LET r  == ClampRadius(w, h, radius)
        s1 == WriteFillRectImpl(s, I16(x + r), y, I16(w - 2 * r), h, color)
        s2 == IF s1.ub # "none" THEN s1
              ELSE FillCircleHelperImpl(s1, I16(x + w - r - 1), I16(y + r), r, 1,
                                        I16(h - 2 * r - 1), color)
    IN  IF s2.ub # "none" THEN s2
        ELSE FillCircleHelperImpl(s2, I16(x + r), I16(y + r), r, 2,
                                  I16(h - 2 * r - 1), color)

\* "Sort vertices by y": three compare-and-swap steps on <<x, y>> pairs
SortByY(v0, v1, v2) ==
    LET a == IF v0[2] > v1[2] THEN <<v1, v0, v2>> ELSE <<v0, v1, v2>>
        b == IF a[2][2] > a[3][2] THEN <<a[1], a[3], a[2]>> ELSE a
    IN  IF b[1][2] > b[2][2] THEN <<b[2], b[1], b[3]>> ELSE b

\* one scanline: a and b swapped into order, then writeFastHLine(a, y, b-a+1)
TriSpan(s, a, b, y, color) ==
    WriteFastHLineImpl(s, Min(a, b), y, I16(Max(a, b) - Min(a, b) + 1), color)

\* for (y = y0; y <= last; y++), edges 0-1 and 0-2
RECURSIVE TriUpper(_, _, _, _, _, _, _)
TriUpper(s, y, ylast, sa, sb, t, color) ==
    IF s.ub # "none" \/ y > ylast THEN s
    ELSE IF t.dy01 = 0 \/ t.dy02 = 0 THEN Fault(s, "division_by_zero")
    ELSE LET a == I16(t.x0 + CDiv(sa, t.dy01))
             b == I16(t.x0 + CDiv(sb, t.dy02))
             p == TriSpan(s, a, b, y, color)
         IN  IF y = 32767 THEN Hang(p)
             ELSE TriUpper(p, y + 1, ylast, sa + t.dx01, sb + t.dx02, t, color)

\* for (y = y1; y <= y2; y++), edges 1-2 and 0-2
RECURSIVE TriLower(_, _, _, _, _, _, _)
TriLower(s, y, y2, sa, sb, t, color) ==
    IF s.ub # "none" \/ y > y2 THEN s
    ELSE IF t.dy12 = 0 \/ t.dy02 = 0 THEN Fault(s, "division_by_zero")
    ELSE LET a == I16(t.x1 + CDiv(sa, t.dy12))
             b == I16(t.x0 + CDiv(sb, t.dy02))
             p == TriSpan(s, a, b, y, color)
         IN  IF y = 32767 THEN Hang(p)
             ELSE TriLower(p, y + 1, y2, sa + t.dx12, sb + t.dx02, t, color)

FillTriangleImpl(s, ax, ay, bx, by, cx, cy, color) ==
    LET v  == SortByY(<<ax, ay>>, <<bx, by>>, <<cx, cy>>)
        x0 == v[1][1]
        y0 == v[1][2]
        x1 == v[2][1]
        y1 == v[2][2]
        x2 == v[3][1]
        y2 == v[3][2]
    IN  IF y0 = y2
          THEN LET a == Min(x0, Min(x1, x2))
                   b == Max(x0, Max(x1, x2))
               IN  WriteFastHLineImpl(s, a, y0, I16(b - a + 1), color)
          ELSE LET t == [x0 |-> x0, x1 |-> x1,
                         dx01 |-> I16(x1 - x0), dy01 |-> I16(y1 - y0),
                         dx02 |-> I16(x2 - x0), dy02 |-> I16(y2 - y0),
                         dx12 |-> I16(x2 - x1), dy12 |-> I16(y2 - y1)]
                   ylast == IF y1 = y2 THEN y1 ELSE I16(y1 - 1)
                   up == TriUpper(s, y0, ylast, 0, 0, t, color)
               IN  IF up.ub # "none" THEN up
                   ELSE TriLower(up, y1, y2, 0, t.dx02 * (y1 - y0), t, color)

\* ------------------------------------------------------------ color565
\* the bitwise operators on non-negative integers
RECURSIVE BitAnd(_, _)
BitAnd(a, b) ==
    IF a = 0 \/ b = 0 THEN 0
    ELSE (IF a % 2 = 1 /\ b % 2 = 1 THEN 1 ELSE 0) + 2 * BitAnd(a \div 2, b \div 2)

RECURSIVE BitOr(_, _)
BitOr(a, b) ==
    IF a = 0 THEN b
    ELSE IF b = 0 THEN a
    ELSE (IF a % 2 = 1 \/ b % 2 = 1 THEN 1 ELSE 0) + 2 * BitOr(a \div 2, b \div 2)

Shl(a, n) == a * (2 ^ n)
Shr(a, n) == a \div (2 ^ n)

\* conversion to uint16_t
U16(v) == v % 65536

\* (mutant: red keeps four bits)
Color565FourBitRed(r, g, b) ==
    U16(BitOr(BitOr(Shl(BitAnd(r, 240), 8), Shl(BitAnd(g, 252), 3)), Shr(b, 3)))

\* ((r&0xF8)<<8)|((g&0xFC)<<3)|(b>>3)
Color565(r, g, b) ==
    U16(BitOr(BitOr(Shl(BitAnd(r, 248), 8), Shl(BitAnd(g, 252), 3)), Shr(b, 3)))

\* color565((rgb>>16)&0xFF, (rgb>>8)&0xFF, rgb&0xFF)
Color565Rgb(rgb) ==
    Color565(BitAnd(Shr(rgb, 16), 255), BitAnd(Shr(rgb, 8), 255), BitAnd(rgb, 255))

\* --------------------------------------------------------------------- text
\* s_font: five column bytes per character, bit 0 the top row; the rows of
\* the characters written here: '?', 'A', 'B', 'C'
s_font ==
    [c \in {63, 65, 66, 67} |->
        CASE c = 63 -> <<2, 1, 81, 9, 6>>
          [] c = 65 -> <<126, 17, 17, 17, 126>>
          [] c = 66 -> <<127, 73, 73, 73, 54>>
          [] c = 67 -> <<62, 65, 65, 65, 34>>]

\* The custom fonts a caller passes to setFont, by address: a GFXfont of the
\* two glyphs 'A' (3 by 2 pixels) and 'B' (2 by 2 pixels).
FONT == "font"
FontAt ==
    [p \in {FONT} |->
        [bitmap |-> <<188, 208>>,
         glyph |-> << [bitmapOffset |-> 0, width |-> 3, height |-> 2,
                       xAdvance |-> 4, xOffset |-> 0, yOffset |-> 0 - 2],
                      [bitmapOffset |-> 1, width |-> 2, height |-> 2,
                       xAdvance |-> 3, xOffset |-> 1, yOffset |-> 0 - 1] >>,
         first |-> 65, last |-> 66, yAdvance |-> 3]]

\* the members a text call works on: those of Cur and the cursor
CurText == [bufs |-> m_buffers, cnt |-> m_bufferCount,
            draw |-> m_drawBufferIndex, disp |-> m_displayBufferIndex,
            en |-> m_multiBufferEnabled, pbuf |-> m_pBuffer,
            heap |-> heap, mem |-> mem, ub |-> "none",
            ok |-> TRUE, mallocs |-> {},
            cx |-> m_cursorX, cy |-> m_cursorY]

\* one bit of a glyph: a pixel at size 1, a size_x by size_y block otherwise
DrawBit(s, x, y, px, size_x, size_y) ==
    IF size_x = 1 /\ size_y = 1
      THEN WritePixelImpl(s, I16(x), I16(y), px)
      ELSE WriteFillRectImpl(s, I16(x), I16(y), size_x, size_y, px)

\* the built-in font: columns 0..4 from the table, then the spacer column 5;
\* cell k is column k / 8, row k % 8
RECURSIVE DrawBuiltinLoop(_, _, _, _, _, _, _, _, _)
DrawBuiltinLoop(s, x, y, glyph, k, color, bg, size_x, size_y) ==
    IF s.ub # "none" \/ k >= 48 THEN s
    ELSE LET col == k \div 8
             row == k % 8
             px  == IF col < 5 /\ Shr(glyph[col + 1], row) % 2 = 1
                      THEN color ELSE bg
         IN  DrawBuiltinLoop(DrawBit(s, x + col * size_x, y + row * size_y,
                                     px, size_x, size_y),
                             x, y, glyph, k + 1, color, bg, size_x, size_y)

\* a custom glyph: only set bits, most significant bit first, gw per row
RECURSIVE DrawGlyphLoop(_, _, _, _, _, _, _, _, _)
DrawGlyphLoop(s, f, g, gx, gy, k, color, size_x, size_y) ==
    IF s.ub # "none" \/ k >= g.width * g.height THEN s
    ELSE LET gx2   == k % g.width
             gy2   == k \div g.width
             bits8 == f.bitmap[g.bitmapOffset + (k \div 8) + 1]
             set   == Shr(bits8, 7 - (k % 8)) % 2 = 1
         IN  DrawGlyphLoop(IF set THEN DrawBit(s, gx + gx2 * size_x, gy + gy2 * size_y,
                                               color, size_x, size_y)
                                  ELSE s,
                           f, g, gx, gy, k + 1, color, size_x, size_y)

DrawCharImpl(s, x, y, c, color, bg, size_x, size_y) ==
    IF m_pFont = NULL
      THEN IF x >= m_width \/ y >= m_height
              \/ x + 6 * size_x - 1 < 0 \/ y + 8 * size_y - 1 < 0
             THEN s
             ELSE DrawBuiltinLoop(s, x, y, s_font[IF c < 32 \/ c > 126 THEN 63 ELSE c],
                                  0, color, bg, size_x, size_y)
      ELSE LET f == FontAt[m_pFont]
           IN  IF c < f.first \/ c > f.last THEN s
               ELSE LET g == f.glyph[((c - f.first) % 256) + 1]
                    IN  DrawGlyphLoop(s, f, g, I16(x + g.xOffset), I16(y + g.yOffset),
                                      0, color, size_x, size_y)

\* m_pFont ? m_pFont->yAdvance : 8
LineAdvance == IF m_pFont # NULL THEN FontAt[m_pFont].yAdvance ELSE 8

\* m_cursorX = 0; m_cursorY += m_textSizeY * (line advance)
NewLine(s) == [s EXCEPT !.cx = 0, !.cy = I16(s.cy + m_textSizeY * LineAdvance)]

\* the glyph table has last - first + 1 entries
InTable(c) == c >= FontAt[m_pFont].first /\ c <= FontAt[m_pFont].last

WrapBreakNever(s, adv) == s

\* the line break of a glyph that would cross the right edge
WrapBreak(s, adv) ==
    IF m_textWrap /\ s.cx + m_textSizeX * adv > m_width THEN NewLine(s) ELSE s

\* one pass of the loop of writeText, on the byte c
WriteCharImpl(s, c) ==
    IF c = 10 THEN NewLine(s)
    ELSE IF c = 13 THEN s
    ELSE IF m_pFont # NULL /\ ~InTable(c) THEN Fault(s, "out_of_bounds")
    ELSE LET adv == IF m_pFont # NULL
                      THEN FontAt[m_pFont].glyph[c - FontAt[m_pFont].first + 1].xAdvance
                      ELSE 6
             b   == WrapBreak(s, adv)
             d   == DrawCharImpl(b, b.cx, b.cy, c, m_textColor, m_textBgColor,
                                 m_textSizeX, m_textSizeY)
         IN  IF d.ub # "none" THEN d
             ELSE [d EXCEPT !.cx = I16(b.cx + m_textSizeX * adv)]

\* while (*text) on the bytes of the string from the i-th
RECURSIVE WriteTextLoop(_, _, _)
WriteTextLoop(s, str, i) ==
    IF s.ub # "none" \/ i > Len(str) THEN s
    ELSE WriteTextLoop(WriteCharImpl(s, str[i]), str, i + 1)

WriteTextImpl(s, str) == WriteTextLoop(s, str, 1)

\* ------------------------------------------------------------------ actions
\* The members of an object that is gone (destroyed, or after an undefined
\* execution) mean nothing any more.
Vanish ==
    /\ m_buffers' = [i \in Slots |-> NoSlot]
    /\ m_bufferCount' = 0
    /\ m_drawBufferIndex' = 0
    /\ m_displayBufferIndex' = 0
    /\ m_multiBufferEnabled' = FALSE
    /\ m_pBuffer' = NULL
    /\ mem' = InitMem
    /\ writes' = 0

\* the operations that store pixels: single stores, counted when they
\* change a pixel, and the drawing primitives, counted by the call
PixelOps == {"drawPixel", "clearBuffer"}
PaintOps == {"drawFastHLine", "drawLine", "drawCircle", "fillTriangle",
             "drawRoundRect", "fillRoundRect", "drawChar"}

\* An operation's result becomes the next state.  An undefined execution
\* leaves only what happened (ub) and in which call (last.op).
Commit(s, op, arg) ==
    /\ ub' = s.ub
    /\ last' = [op |-> op, arg |-> arg, ok |-> (s.ub = "none" /\ s.ok), ret |-> 0]
    /\ alive' = alive
    /\ UNCHANGED <<dims, text>>
    /\ IF s.ub = "none"
         THEN /\ m_buffers' = s.bufs
              /\ m_bufferCount' = s.cnt
              /\ m_drawBufferIndex' = s.draw
              /\ m_displayBufferIndex' = s.disp
              /\ m_multiBufferEnabled' = s.en
              /\ m_pBuffer' = s.pbuf
              /\ heap' = s.heap
              /\ mem' = s.mem
              /\ writes' = IF op \in PaintOps \/ (s.mem # mem /\ op \in PixelOps)
                             THEN writes + 1 ELSE writes
         ELSE Vanish /\ heap' = {}

Running == alive /\ ub = "none"

\* one call of each operation
enableMultiBufferCall(numBuffers, failAt) ==
    Running /\ Commit(EnableMultiBufferImpl(Cur, numBuffers, failAt),
                      "enableMultiBuffer", numBuffers)
swapBuffersCall(autoclear) ==
    Running /\ Commit(SwapBuffersImpl(Cur, autoclear), "swapBuffers", 0)
selectDrawBufferCall(i) ==
    Running /\ Commit(SelectDrawBufferImpl(Cur, i), "selectDrawBuffer", 0)
selectDisplayBufferCall(i) ==
    Running /\ Commit(SelectDisplayBufferImpl(Cur, i), "selectDisplayBuffer", 0)
clearBufferCall(i, color) ==
    /\ Running
    /\ writes < MaxWrites
    /\ Commit(ClearBufferImpl(Cur, i, color), "clearBuffer", 0)
attachExternalBufferCall(i, p) ==
    Running /\ Commit(AttachExternalBufferImpl(Cur, i, p), "attachExternalBuffer", 0)
detachExternalBufferCall(i) ==
    Running /\ Commit(DetachExternalBufferImpl(Cur, i), "detachExternalBuffer", i)
drawPixelCall(x, y, color) ==
    /\ Running
    /\ writes < MaxWrites
    /\ Commit(SetPixelImpl(Cur, x, y, color), "drawPixel", 0)

\* the caller's choices: numBuffers and which malloc (if any) returns nullptr,
\* buffer indices, the external buffer or nullptr, coordinates around the
\* surface, colours
enableMultiBuffer ==
    \E numBuffers \in 0..MaxNum, failAt \in 0..NumSlots :
        enableMultiBufferCall(numBuffers, failAt)
swapBuffers == \E autoclear \in BOOLEAN : swapBuffersCall(autoclear)
selectDrawBuffer == \E i \in 0..MaxIndex : selectDrawBufferCall(i)
selectDisplayBuffer == \E i \in 0..MaxIndex : selectDisplayBufferCall(i)
clearBuffer ==
    \E i \in (0 - 3)..MaxIndex, color \in Colors : clearBufferCall(i, color)
attachExternalBuffer ==
    \E i \in 0..MaxIndex, p \in {NULL, EXT} : attachExternalBufferCall(i, p)
detachExternalBuffer == \E i \in 0..MaxIndex : detachExternalBufferCall(i)
drawPixel ==
    \E x \in (0 - 1)..m_width, y \in (0 - 1)..m_height, color \in Colors :
        drawPixelCall(x, y, color)

\* a drawing primitive may be called
CanPaint == Running /\ writes < MaxPaints

\* startWrite(); write...(...); endWrite(): the drawing calls
drawFastHLineCall(x, y, w, color) ==
    /\ CanPaint
    /\ Commit(WriteFastHLineImpl(Cur, x, y, w, color),
              "drawFastHLine", <<x, y, w, color>>)
drawLineCall(x0, y0, x1, y1, color) ==
    /\ CanPaint
    /\ Commit(WriteLineImpl(Cur, x0, y0, x1, y1, color),
              "drawLine", <<x0, y0, x1, y1, color>>)
drawCircleCall(x0, y0, r, color) ==
    /\ CanPaint
    /\ Commit(DrawCircleImpl(Cur, x0, y0, r, color),
              "drawCircle", <<x0, y0, r, color>>)
fillTriangleCall(x0, y0, x1, y1, x2, y2, color) ==
    /\ CanPaint
    /\ Commit(FillTriangleImpl(Cur, x0, y0, x1, y1, x2, y2, color),
              "fillTriangle", <<x0, y0, x1, y1, x2, y2, color>>)
drawRoundRectCall(x, y, w, h, r, color) ==
    /\ CanPaint
    /\ Commit(DrawRoundRectImpl(Cur, x, y, w, h, r, color),
              "drawRoundRect", <<x, y, w, h, r, color>>)
fillRoundRectCall(x, y, w, h, r, color) ==
    /\ CanPaint
    /\ Commit(FillRoundRectImpl(Cur, x, y, w, h, r, color),
              "fillRoundRect", <<x, y, w, h, r, color>>)

\* the caller's coordinates: around the surface, and far from it at the
\* ends of the int16_t range
Near == (0 - 1)..(m_width + 1)
Far  == {0 - 32768, 0 - 30000, 30000, 32767}
Few  == {0 - 1, 1, m_width - 1}

drawFastHLine ==
    /\ CanPaint
    /\ \E x \in Near \cup Far, y \in (0 - 1)..m_height,
       w \in Near \cup Far, color \in Colors :
        drawFastHLineCall(x, y, w, color)
drawLine ==
    /\ CanPaint
    /\ \E x0 \in (0 - 1)..m_width, y0 \in (0 - 1)..m_height,
       x1 \in (0 - 1)..m_width, y1 \in (0 - 1)..m_height, color \in Colors :
        drawLineCall(x0, y0, x1, y1, color)
drawCircle ==
    /\ CanPaint
    /\ \E x0 \in (0 - 1)..m_width, y0 \in (0 - 1)..m_height,
       r \in 0..MaxRadius, color \in Colors :
        drawCircleCall(x0, y0, r, color)
fillTriangle ==
    /\ CanPaint
    /\ \E x0 \in Few \cup {32767}, x1 \in Few \cup {32767}, x2 \in Few \cup {32767},
       y0 \in Few, y1 \in Few, y2 \in Few, color \in Colors :
        fillTriangleCall(x0, y0, x1, y1, x2, y2, color)
drawRoundRect ==
    /\ CanPaint
    /\ \E x \in (0 - 1)..1, y \in (0 - 1)..1, w \in (0 - 1)..m_width,
       h \in (0 - 1)..m_height, r \in 0..(MaxRadius + 1), color \in Colors :
        drawRoundRectCall(x, y, w, h, r, color)
fillRoundRect ==
    /\ CanPaint
    /\ \E x \in (0 - 1)..1, y \in (0 - 1)..1, w \in (0 - 1)..m_width,
       h \in (0 - 1)..m_height, r \in 0..(MaxRadius + 1), color \in Colors :
        fillRoundRectCall(x, y, w, h, r, color)

\* the colour helpers read and change no member
color565Call(r, g, b) ==
    /\ Running
    /\ last' = [op |-> "color565", arg |-> <<r, g, b>>, ok |-> TRUE,
                ret |-> Color565(r, g, b)]
    /\ UNCHANGED <<dims, text, m_buffers, m_bufferCount, m_drawBufferIndex,
                   m_displayBufferIndex, m_multiBufferEnabled, m_pBuffer,
                   heap, mem, ub, alive, writes>>
color565RgbCall(rgb) ==
    /\ Running
    /\ last' = [op |-> "color565rgb", arg |-> <<rgb>>, ok |-> TRUE,
                ret |-> Color565Rgb(rgb)]
    /\ UNCHANGED <<dims, text, m_buffers, m_bufferCount, m_drawBufferIndex,
                   m_displayBufferIndex, m_multiBufferEnabled, m_pBuffer,
                   heap, mem, ub, alive, writes>>

\* channel values at and around the bits the conversion drops
ByteSamples == {0, 7, 8, 131, 252, 255}

color565 ==
    \E r \in ByteSamples, g \in ByteSamples, b \in ByteSamples :
        color565Call(r, g, b)
color565Rgb ==
    \E top \in {0, 127}, r \in ByteSamples, g \in ByteSamples, b \in ByteSamples :
        color565RgbCall(((top * 256 + r) * 256 + g) * 256 + b)

\* ------------------------------------------------------------ text actions
\* a text call may be made
CanText == Running /\ writes < MaxTexts

\* what a call that only stores a text member leaves alone; last names
\* all of them "setText"
Settled ==
    /\ CanText
    /\ last' = [op |-> "setText", arg |-> 0, ok |-> TRUE, ret |-> 0]
    /\ UNCHANGED <<dims, m_buffers, m_bufferCount, m_drawBufferIndex,
                   m_displayBufferIndex, m_multiBufferEnabled, m_pBuffer,
                   heap, mem, ub, alive, writes>>

setFontCall(f) ==
    /\ Settled
    /\ m_pFont' = f
    /\ UNCHANGED <<m_cursorX, m_cursorY, m_textSizeX, m_textSizeY, m_textWrap,
                   m_textColor, m_textBgColor>>
setCursorCall(x, y) ==
    /\ Settled
    /\ m_cursorX' = I16(x)
    /\ m_cursorY' = I16(y)
    /\ UNCHANGED <<m_textSizeX, m_textSizeY, m_textWrap, m_textColor,
                   m_textBgColor, m_pFont>>
setTextColorCall(c) ==
    /\ Settled
    /\ m_textColor' = c
    /\ m_textBgColor' = c
    /\ UNCHANGED <<m_cursorX, m_cursorY, m_textSizeX, m_textSizeY, m_textWrap,
                   m_pFont>>
setTextColorBgCall(c, bg) ==
    /\ Settled
    /\ m_textColor' = c
    /\ m_textBgColor' = bg
    /\ UNCHANGED <<m_cursorX, m_cursorY, m_textSizeX, m_textSizeY, m_textWrap,
                   m_pFont>>
setTextSizeCall(sz) ==
    /\ Settled
    /\ m_textSizeX' = (IF sz # 0 THEN sz ELSE 1)
    /\ m_textSizeY' = (IF sz # 0 THEN sz ELSE 1)
    /\ UNCHANGED <<m_cursorX, m_cursorY, m_textWrap, m_textColor,
                   m_textBgColor, m_pFont>>
setTextSizeXYCall(sx, sy) ==
    /\ Settled
    /\ m_textSizeX' = (IF sx # 0 THEN sx ELSE 1)
    /\ m_textSizeY' = (IF sy # 0 THEN sy ELSE 1)
    /\ UNCHANGED <<m_cursorX, m_cursorY, m_textWrap, m_textColor,
                   m_textBgColor, m_pFont>>
setTextWrapCall(w) ==
    /\ Settled
    /\ m_textWrap' = w
    /\ UNCHANGED <<m_cursorX, m_cursorY, m_textSizeX, m_textSizeY,
                   m_textColor, m_textBgColor, m_pFont>>

\* writeText(text): the members it leaves, and the cursor and pixels it
\* stores when it returns
writeTextCall(str) ==
    /\ CanText
    /\ LET s == WriteTextImpl(CurText, str)
       IN  /\ ub' = s.ub
           /\ last' = [op |-> "writeText", arg |-> str, ok |-> s.ub = "none",
                       ret |-> 0]
           /\ UNCHANGED <<dims, alive, heap, m_textSizeX, m_textSizeY, m_textWrap,
                          m_textColor, m_textBgColor, m_pFont>>
           /\ IF s.ub = "none"
                THEN /\ mem' = s.mem
                     /\ m_cursorX' = s.cx
                     /\ m_cursorY' = s.cy
                     /\ writes' = writes + 1
                     /\ UNCHANGED <<m_buffers, m_bufferCount, m_drawBufferIndex,
                                    m_displayBufferIndex, m_multiBufferEnabled,
                                    m_pBuffer>>
                ELSE Vanish /\ m_cursorX' = 0 /\ m_cursorY' = 0

\* the caller's cursor positions, text sizes and bytes: '\n', '\r', a
\* control byte, 'A', 'B', 'C'
CursorXs  == {0, 3, 32767}
CursorYs  == {0, 32767}
TextSizes == {0, 1, 2}
TextBytes == {10, 13, 31, 65, 66, 67}
Strings   == UNION {[1..n -> TextBytes] : n \in 1..MaxText}

setFont       == CanText /\ \E f \in {NULL, FONT} : setFontCall(f)
setCursor     == CanText /\ \E x \in CursorXs, y \in CursorYs : setCursorCall(x, y)
setTextColor  == CanText /\ \E c \in Colors : setTextColorCall(c)
setTextColorBg == CanText /\ \E c \in Colors, bg \in Colors : setTextColorBgCall(c, bg)
setTextSize   == CanText /\ \E sz \in TextSizes : setTextSizeCall(sz)
setTextSizeXY == CanText /\ \E sx \in TextSizes, sy \in TextSizes : setTextSizeXYCall(sx, sy)
setTextWrap   == CanText /\ \E w \in BOOLEAN : setTextWrapCall(w)
writeText     == CanText /\ \E str \in Strings : writeTextCall(str)

\* drawChar(x, y, c, color, bg, size_x, size_y) of the caller
drawCharCall(x, y, c, color, bg, size_x, size_y) ==
    /\ CanPaint
    /\ Commit(DrawCharImpl(Cur, I16(x), I16(y), c, color, bg, size_x, size_y),
              "drawChar", <<x, y, c, color, bg, size_x, size_y>>)

\* a control byte, 'A' and 'B', at and across the left and top edges
drawChar ==
    /\ CanPaint
    /\ \E x \in {0 - 1, 0, 3}, y \in {0 - 1, 2}, c \in {31, 65, 66},
          color \in Colors, bg \in Colors, size_x \in 1..2, size_y \in 1..2 :
        drawCharCall(x, y, c, color, bg, size_x, size_y)

\* setFont while a character may still be drawn
setFontFirst == CanPaint /\ setFont

\* getPixel(x, y): ret is the pixel read, 0 after the early return
getPixelCall(x, y) ==
    /\ Running
    /\ LET s == GetPixelImpl(Cur, I16(x), I16(y))
       IN  /\ ub' = s.ub
           /\ last' = [op |-> "getPixel", arg |-> <<x, y>>,
                       ok |-> (s.ub = "none" /\ s.ok),
                       ret |-> IF s.ub = "none" /\ s.ok
                                 THEN mem[m_pBuffer][y * Stride + x + 1] ELSE 0]
           /\ UNCHANGED <<dims, text, alive>>
           /\ IF s.ub = "none"
                THEN UNCHANGED <<m_buffers, m_bufferCount, m_drawBufferIndex,
                                 m_displayBufferIndex, m_multiBufferEnabled,
                                 m_pBuffer, heap, mem, writes>>
                ELSE Vanish /\ heap' = {}

getPixel ==
    \E x \in (0 - 1)..m_width, y \in (0 - 1)..m_height : getPixelCall(x, y)

\* setRotation(r): m_rotation = r % 4, and SWAP(m_width, m_height) when
\* that is 1 or 3
setRotationCall(r) ==
    /\ Running
    /\ m_rotation' = r % 4
    /\ m_width'  = (IF r % 4 \in {1, 3} THEN m_height ELSE m_width)
    /\ m_height' = (IF r % 4 \in {1, 3} THEN m_width ELSE m_height)
    /\ last' = [op |-> "setRotation", arg |-> r, ok |-> TRUE, ret |-> 0]
    /\ UNCHANGED <<m_pitch, m_pFrameBuffer, text, m_buffers, m_bufferCount,
                   m_drawBufferIndex, m_displayBufferIndex, m_multiBufferEnabled,
                   m_pBuffer, heap, mem, ub, alive, writes>>

setRotation == \E r \in 0..MaxTurn : setRotationCall(r)

\* ~CircleGFX() {} : the destructor frees nothing
Destroy ==
    /\ Running
    /\ alive' = FALSE
    /\ last' = [op |-> "destroy", arg |-> 0, ok |-> TRUE, ret |-> 0]
    /\ Vanish
    /\ UNCHANGED <<dims, text, heap, ub>>

\* The constructor sets m_pBuffer to the hardware surface and leaves
\* m_buffers, m_bufferCount, m_drawBufferIndex, m_displayBufferIndex and
\* m_multiBufferEnabled uninitialised: they hold whatever the storage of the
\* object held, each slot zero bytes or stale nonzero ones.
GarbageSlots ==
    {NoSlot, [pData |-> WILD, bOwned |-> TRUE, bReady |-> TRUE]}

\* what the constructor's initialiser list and body set: the dimensions of
\* a w by h framebuffer, the cursor, text size, wrap, colours, no font
ConstructedOn(w, h, pitch) ==
    /\ m_pFrameBuffer = [width |-> w, height |-> h, pitch |-> pitch]
    /\ m_width = I16(m_pFrameBuffer.width)
    /\ m_height = I16(m_pFrameBuffer.height)
    /\ m_pitch = m_pFrameBuffer.pitch
    /\ m_rotation = 0
    /\ m_cursorX = 0
    /\ m_cursorY = 0
    /\ m_textSizeX = 1
    /\ m_textSizeY = 1
    /\ m_textWrap = TRUE
    /\ m_textColor = MaxColor
    /\ m_textBgColor = 0
    /\ m_pFont = NULL
    /\ m_pBuffer = HW
    /\ heap = {}
    /\ ub = "none"
    /\ alive = TRUE
    /\ writes = 0
    /\ last = [op |-> "construct", arg |-> 0, ok |-> TRUE, ret |-> 0]

\* on a framebuffer whose rows are not padded
Constructed(w, h) == ConstructedOn(w, h, 2 * w)

Init ==
    /\ Constructed(Width, Height)
    /\ m_buffers \in [Slots -> GarbageSlots]
    /\ m_bufferCount \in 0..GarbageMax
    /\ m_drawBufferIndex \in 0..GarbageMax
    /\ m_displayBufferIndex \in 0..GarbageMax
    /\ m_multiBufferEnabled \in BOOLEAN
    /\ mem = InitMem

\* The buffer manager: every operation that allocates, frees, selects or
\* presents a buffer.
Next ==
    \/ enableMultiBuffer
    \/ swapBuffers
    \/ selectDrawBuffer
    \/ selectDisplayBuffer
    \/ attachExternalBuffer
    \/ detachExternalBuffer
    \/ Destroy

Spec == Init /\ [][Next]_vars

\* Drawing into the buffers: the operations that store pixels, with the
\* buffers enableMultiBuffer allocates.
NextPixels ==
    \/ enableMultiBuffer
    \/ swapBuffers
    \/ selectDrawBuffer
    \/ selectDisplayBuffer
    \/ clearBuffer
    \/ drawPixel

SpecPixels == Init /\ [][NextPixels]_vars

\* Painting: the drawing primitives on a surface of PaintWidth by
\* PaintHeight pixels that shows one colour when the engine is constructed.
\* No primitive reads a multi-buffer member; they hold zero bytes here.
InitPaint ==
    /\ Constructed(PaintWidth, PaintHeight)
    /\ m_buffers = [i \in Slots |-> NoSlot]
    /\ m_bufferCount = 0
    /\ m_drawBufferIndex = 0
    /\ m_displayBufferIndex = 0
    /\ m_multiBufferEnabled = FALSE
    /\ \E bg \in Colors :
          mem = [InitMem EXCEPT ![HW] = Filled(BlockSize(HW), bg)]

NextPaint ==
    \/ drawFastHLine
    \/ drawLine
    \/ drawCircle
    \/ fillTriangle
    \/ drawRoundRect
    \/ fillRoundRect

SpecPaint == InitPaint /\ [][NextPaint]_vars

\* Colour conversion: the two color565 overloads on sampled channel values.
NextColor ==
    \/ color565
    \/ color565Rgb

SpecColor == InitPaint /\ [][NextColor]_vars

\* Text: the text settings and writeText on a surface of TextWidth by
\* TextHeight pixels, all of colour 0 when the engine is constructed.
InitText ==
    /\ Constructed(TextWidth, TextHeight)
    /\ m_buffers = [i \in Slots |-> NoSlot]
    /\ m_bufferCount = 0
    /\ m_drawBufferIndex = 0
    /\ m_displayBufferIndex = 0
    /\ m_multiBufferEnabled = FALSE
    /\ mem = [InitMem EXCEPT ![HW] = Filled(BlockSize(HW), 0)]

NextText ==
    \/ setFont
    \/ setCursor
    \/ setTextColor
    \/ setTextColorBg
    \/ setTextSize
    \/ setTextSizeXY
    \/ setTextWrap
    \/ writeText

SpecText == InitText /\ [][NextText]_vars

\* Glyphs: drawChar, in the built-in or a custom font, on the text surface.
NextGlyph ==
    \/ setFontFirst
    \/ drawChar

SpecGlyph == InitText /\ [][NextGlyph]_vars

\* Rotation: setRotation and single pixel access on a framebuffer of
\* RotWidth by RotHeight pixels. Neither reads a multi-buffer member; they
\* hold zero bytes here.
InitRotate ==
    /\ Constructed(RotWidth, RotHeight)
    /\ m_buffers = [i \in Slots |-> NoSlot]
    /\ m_bufferCount = 0
    /\ m_drawBufferIndex = 0
    /\ m_displayBufferIndex = 0
    /\ m_multiBufferEnabled = FALSE
    /\ mem = [InitMem EXCEPT ![HW] = Filled(BlockSize(HW), 0)]

NextRotate ==
    \/ setRotation
    \/ drawPixel
    \/ getPixel

SpecRotate == InitRotate /\ [][NextRotate]_vars

\* Padded rows: a framebuffer of PitchWidth by PitchHeight pixels whose
\* pitch is 2 * (PitchWidth + pad) bytes, multi-buffering switched on, and
\* single pixels drawn.
InitPitch ==
    /\ \E pad \in 0..MaxPad :
          ConstructedOn(PitchWidth, PitchHeight, 2 * (PitchWidth + pad))
    /\ m_buffers \in [Slots -> GarbageSlots]
    /\ m_bufferCount \in 0..GarbageMax
    /\ m_drawBufferIndex \in 0..GarbageMax
    /\ m_displayBufferIndex \in 0..GarbageMax
    /\ m_multiBufferEnabled \in BOOLEAN
    /\ mem = InitMem

NextPitch ==
    \/ enableMultiBuffer
    \/ drawPixel

SpecPitch == InitPitch /\ [][NextPitch]_vars

\* ================================================================ properties
Returned(op) == alive /\ ub = "none" /\ last.op = op

\* first width*height pixels of a block
Pixels(m, p) == [k \in 1..PixelCount |-> m[p][k]]

\* ---------------------------------------------------------------------- C1
\* C1: after an enableMultiBuffer call that failed on an allocation (it
\* returned false), from any prior state, multi-buffering is disabled,
\* bufferCount is 1, and every block allocated is free again: no slot holds
\* live engine-allocated memory.
C1_FailedEnableRollsBack ==
    (Returned("enableMultiBuffer") /\ ~last.ok) =>
        /\ ~m_multiBufferEnabled
        /\ m_bufferCount = 1
        /\ heap = {}
        /\ \A i \in Slots : m_buffers[i].pData \notin heap

\* a second enableMultiBuffer, made while multi-buffering was enabled, failed
\* after it had allocated slots 0 and 1
C1_Witness ==
    /\ Returned("enableMultiBuffer") /\ ~last.ok
    /\ m_pBuffer \in HeapAddrs
    /\ m_buffers[1].bOwned /\ m_buffers[1].pData = NULL

\* ---------------------------------------------------------------------- C2
\* C2: after a failed enableMultiBuffer, also one made while multi-buffering
\* was enabled, slot 0 is not owned and slot 0's data pointer and the active
\* drawing pointer are the hardware surface.
C2_FailedEnableRevertsToSurface ==
    (Returned("enableMultiBuffer") /\ ~last.ok) =>
        /\ ~m_buffers[0].bOwned
        /\ m_buffers[0].pData = HW
        /\ m_pBuffer = HW

\* ---------------------------------------------------------------------- C3
\* C3: bufferCount is in 1..3 and the draw and display indices are below it
\* in every reachable state; so no operation leaves these bounds once they
\* hold.
IndexBounds ==
    /\ m_bufferCount \in 1..NumSlots
    /\ m_drawBufferIndex < m_bufferCount
    /\ m_displayBufferIndex < m_bufferCount

C3_IndexBoundsKept ==
    [][(alive /\ IndexBounds /\ alive' /\ ub' = "none") => IndexBounds']_vars

\* ---------------------------------------------------------------------- C4
\* C4: with multi-buffering enabled and bufferCount = n, a swapBuffers call
\* sets the display index to the previous draw index and the draw index to
\* (previous draw index + 1) mod n, leaving n as it is; from an index below
\* n the draw index stays below n, so n swaps go once round 0..n-1.
C4_SwapRoundRobin ==
    [][(m_multiBufferEnabled /\ last'.op = "swapBuffers" /\ ub' = "none") =>
          /\ m_bufferCount > 0
          /\ m_bufferCount' = m_bufferCount
          /\ m_displayBufferIndex' = m_drawBufferIndex
          /\ m_drawBufferIndex' = (m_drawBufferIndex + 1) % m_bufferCount
          /\ m_drawBufferIndex' < m_bufferCount
          /\ (m_bufferCount = 1 => m_drawBufferIndex' = 0)
          /\ (m_drawBufferIndex = m_bufferCount - 1 => m_drawBufferIndex' = 0)
       ]_vars

\* the third swap of three buffers wrapped the draw index round to 0
C4_Witness ==
    /\ Returned("swapBuffers") /\ last.ok
    /\ m_multiBufferEnabled
    /\ m_bufferCount = 3
    /\ Cardinality(heap) = 3
    /\ m_displayBufferIndex = 2
    /\ m_drawBufferIndex = 0

\* ---------------------------------------------------------------------- C5
\* C5: after swapBuffers (multi-buffering enabled) the hardware surface
\* holds, over width*height pixels, what the draw buffer held when
\* swapBuffers was called; after a successful selectDisplayBuffer(i) it
\* holds what buffer i holds.
C5_DisplayedBufferIsCopied ==
    [][/\ (m_multiBufferEnabled /\ last'.op = "swapBuffers" /\ ub' = "none") =>
            /\ m_drawBufferIndex \in Slots
            /\ m_buffers[m_drawBufferIndex].pData \in Blocks
            /\ Pixels(mem', HW) = Pixels(mem, m_buffers[m_drawBufferIndex].pData)
       /\ (last'.op = "selectDisplayBuffer" /\ last'.ok /\ ub' = "none") =>
            /\ m_displayBufferIndex' \in Slots
            /\ m_buffers[m_displayBufferIndex'].pData \in Blocks
            /\ Pixels(mem', HW) =
                   Pixels(mem, m_buffers[m_displayBufferIndex'].pData)
            /\ Pixels(mem', HW) =
                   Pixels(mem', m_buffers'[m_displayBufferIndex'].pData)
      ]_vars

\* a picture drawn into an allocated buffer (neither the zero fill nor the
\* surface's first colour) is on the surface after the swap
C5_Witness ==
    /\ Returned("swapBuffers") /\ last.ok
    /\ \E k \in 1..PixelCount : mem[HW][k] = 0
    /\ \E k \in 1..PixelCount : mem[HW][k] # 0
    /\ Pixels(mem, HW) = Pixels(mem, m_buffers[m_displayBufferIndex].pData)

\* ---------------------------------------------------------------------- C6
\* C6: enableMultiBuffer(n) that succeeds leaves bufferCount = n for n in
\* 1..3 and bufferCount = 2 for any other n, that many engine-owned
\* zero-filled buffers in slots 0..bufferCount-1 and no other allocation,
\* and draw index = display index = 0.
C6_EnableAllocates ==
    (Returned("enableMultiBuffer") /\ last.ok) =>
        LET n == IF last.arg \in 1..3 THEN last.arg ELSE 2
        IN  /\ m_multiBufferEnabled
            /\ m_bufferCount = n
            /\ m_drawBufferIndex = 0
            /\ m_displayBufferIndex = 0
            /\ Cardinality(heap) = n
            /\ \A i \in 0..(n - 1) :
                  /\ m_buffers[i].bOwned
                  /\ m_buffers[i].pData \in heap
                  /\ mem[m_buffers[i].pData] = Filled(PixelCount, 0)
                  /\ \A j \in 0..(n - 1) :
                        i # j => m_buffers[i].pData # m_buffers[j].pData

\* enableMultiBuffer with numBuffers above 3 allocated two buffers
C6_Witness ==
    /\ Returned("enableMultiBuffer") /\ last.ok
    /\ last.arg > 3
    /\ m_bufferCount = 2
    /\ Cardinality(heap) = 2

\* ---------------------------------------------------------------------- C7
\* C7: selectDrawBuffer(i) and selectDisplayBuffer(i) return false and leave
\* the indices, the active drawing pointer, every buffer and the hardware
\* surface as they were whenever multi-buffering is disabled or
\* i >= bufferCount.
C7_RefusedSelectChangesNothing ==
    [][last'.op \in {"selectDrawBuffer", "selectDisplayBuffer"} =>
        \A i \in 0..MaxIndex :
          ( /\ (~m_multiBufferEnabled \/ i >= m_bufferCount)
            /\ (selectDrawBufferCall(i) \/ selectDisplayBufferCall(i)) ) =>
              /\ ub' = "none"
              /\ ~last'.ok
              /\ UNCHANGED <<m_buffers, m_bufferCount, m_drawBufferIndex,
                             m_displayBufferIndex, m_multiBufferEnabled,
                             m_pBuffer, heap, mem>>
      ]_vars

\* a select refused for its index alone: multi-buffering is enabled with
\* two allocated buffers
C7_Witness ==
    /\ Returned("selectDisplayBuffer") /\ ~last.ok
    /\ m_multiBufferEnabled
    /\ m_bufferCount = 2
    /\ \A i \in 0..1 : m_buffers[i].bOwned /\ m_buffers[i].pData \in heap

\* ---------------------------------------------------------------------- C8
\* C8: the engine never passes to free the hardware surface, a buffer given
\* to attachExternalBuffer or anything else it did not allocate, and frees
\* no allocation twice.
C8_OnlyOwnAllocationsFreedOnce ==
    ub \notin {"free_not_allocated", "double_free"}

\* ---------------------------------------------------------------------- C9
\* C9: once the engine instance is destroyed, every buffer it allocated has
\* been freed.
C9_NothingLeakedAtDestruction ==
    ~alive => heap = {}

\* --------------------------------------------------------------------- C10
\* C10: detachExternalBuffer(i) returns false and changes nothing for
\* i >= bufferCount and for an engine-owned slot; for a slot that is not
\* owned and i < bufferCount it returns true and clears that slot's data
\* pointer and ready flag, nothing else.
C10_DetachOnlyNotOwned ==
    [][(last'.op = "detachExternalBuffer" /\ ub' = "none") =>
          LET i == last'.arg
              same == UNCHANGED <<m_bufferCount, m_drawBufferIndex,
                                  m_displayBufferIndex, m_multiBufferEnabled,
                                  m_pBuffer, heap, mem>>
          IN  IF i >= m_bufferCount \/ (i \in Slots /\ m_buffers[i].bOwned)
                THEN ~last'.ok /\ same /\ m_buffers' = m_buffers
                ELSE i \in Slots =>
                       /\ last'.ok /\ same
                       /\ m_buffers' = [m_buffers EXCEPT ![i].pData = NULL,
                                                         ![i].bReady = FALSE]
      ]_vars

\* detach was refused for a slot below bufferCount that the engine owns
C10_Witness ==
    /\ Returned("detachExternalBuffer") /\ ~last.ok
    /\ last.arg < m_bufferCount
    /\ m_buffers[last.arg].bOwned
    /\ m_buffers[last.arg].pData \in heap

\* --------------------------------------------------------------------- C11
\* the slots clearBuffer(i, color) is to clear
ClearTargets(i) ==
    IF i = -1 THEN {k \in Slots : k < m_bufferCount}
    ELSE IF i = -2 THEN {m_drawBufferIndex} \cap Slots
    ELSE IF i >= 0 /\ i < m_bufferCount THEN {i} \cap Slots
    ELSE {}

\* C11: clearBuffer(i, color) sets every pixel of each targeted buffer to
\* color and leaves every other buffer as it was; the targets are all
\* buffers below bufferCount for i = -1, the draw buffer for i = -2, buffer
\* i for 0 <= i < bufferCount; for color 0 and for nonzero colours alike.
C11_ClearFillsTargetsWithColor ==
    [][(last'.op = "clearBuffer" /\ ub' = "none") =>
        \A i \in (0 - 2)..MaxIndex, color \in Colors :
          ( /\ (i < 0 \/ i < m_bufferCount)
            /\ clearBufferCall(i, color) ) =>
              LET cleared == {m_buffers[k].pData : k \in ClearTargets(i)}
                             \cap Blocks
              IN  \A b \in Blocks :
                     IF b \in cleared
                       THEN Pixels(mem', b) = Filled(PixelCount, color)
                       ELSE mem'[b] = mem[b]
      ]_vars

\* --------------------------------------------------------------------- C12
\* C12: for every (x, y) with x < 0, x >= width, y < 0 or y >= height and
\* every colour, drawPixel (through writePixel) leaves every pixel of the
\* surface, and of every other buffer, as it was.
C12_PixelOutsideSurfaceIgnored ==
    [][last'.op = "drawPixel" =>
          \A x \in (0 - 1)..m_width, y \in (0 - 1)..m_height, color \in Colors :
             ( /\ (x < 0 \/ x >= m_width \/ y < 0 \/ y >= m_height)
               /\ drawPixelCall(x, y, color) ) =>
                 ub' = "none" /\ mem' = mem
      ]_vars

\* drawPixel returned without storing although there is a buffer to draw
\* into, an allocated one that already holds a drawn pixel
C12_Witness ==
    /\ Returned("drawPixel") /\ ~last.ok
    /\ m_pBuffer \in heap
    /\ \E k \in 1..PixelCount : mem[m_pBuffer][k] # 0

\* ------------------------------------------------------ the painted surface
\* pixel (x, y) of the hardware surface, as getPixel reads it
At(m, x, y) == m[HW][y * Stride + x + 1]

Columns == 0..(m_width - 1)
Rows    == 0..(m_height - 1)

\* the step painted exactly the pixels of `area` (a set of <<x, y>>) with
\* color and left the rest of the surface as it was
PaintedExactly(area, color) ==
    /\ ub' = "none"
    /\ \A x \in Columns, y \in Rows :
          At(mem', x, y) = IF <<x, y>> \in area THEN color ELSE At(mem, x, y)

\* --------------------------------------------------------------------- C13
\* C13: after writeFastHLine(x, y, w, color) with 0 <= y < height every
\* pixel of row y with column in [max(0,x), min(width,x+w)) holds color and
\* every other pixel is unchanged; with y out of bounds or w <= 0 the whole
\* surface is unchanged.
C13_HLineClipped ==
    [][last'.op = "drawFastHLine" =>
          LET x == last'.arg[1]
              y == last'.arg[2]
              w == last'.arg[3]
              span == IF y \in Rows /\ w > 0
                        THEN {<<c, y>> : c \in {c \in Columns : x <= c /\ c < x + w}}
                        ELSE {}
          IN  PaintedExactly(span, last'.arg[4])
      ]_vars

\* --------------------------------------------------------------------- C14
\* C14: for all endpoint pairs, drawLine(x0,y0,x1,y1) paints the same set of
\* pixels as drawLine(x1,y1,x0,y0): from the same surface both leave the
\* same surface; and both endpoints, where on the surface, are painted.
C14_LineSymmetric ==
    [][last'.op = "drawLine" =>
          LET x0 == last'.arg[1]
              y0 == last'.arg[2]
              x1 == last'.arg[3]
              y1 == last'.arg[4]
              color == last'.arg[5]
          IN  /\ ub' = "none"
              /\ mem' = WriteLineImpl(Cur, x1, y1, x0, y0, color).mem
              /\ (x0 \in Columns /\ y0 \in Rows) => At(mem', x0, y0) = color
              /\ (x1 \in Columns /\ y1 \in Rows) => At(mem', x1, y1) = color
      ]_vars

\* --------------------------------------------------------------------- C15
\* C15: for every centre (x0, y0) and radius r >= 0, drawCircle sets each of
\* (x0+r, y0), (x0-r, y0), (x0, y0+r), (x0, y0-r) that lies on the surface
\* to color, and for r >= 1 leaves the centre pixel as it was.
C15_CircleCardinalPoints ==
    [][last'.op = "drawCircle" =>
          LET x0 == last'.arg[1]
              y0 == last'.arg[2]
              r  == last'.arg[3]
              color == last'.arg[4]
          IN  /\ ub' = "none"
              /\ \A p \in {<<x0 + r, y0>>, <<x0 - r, y0>>,
                           <<x0, y0 + r>>, <<x0, y0 - r>>} :
                    (p[1] \in Columns /\ p[2] \in Rows) =>
                        At(mem', p[1], p[2]) = color
              /\ (r >= 1 /\ x0 \in Columns /\ y0 \in Rows) =>
                    At(mem', x0, y0) = At(mem, x0, y0)
      ]_vars

\* a circle of radius 2 whose four cardinal points are all on the surface,
\* painted in a colour the centre does not show
C15_Witness ==
    /\ Returned("drawCircle")
    /\ last.arg[3] = 2
    /\ \A d \in {0 - 2, 2} :
          last.arg[1] + d \in Columns /\ last.arg[2] + d \in Rows
    /\ \A d \in {0 - 2, 2} :
          /\ At(mem, last.arg[1] + d, last.arg[2]) = last.arg[4]
          /\ At(mem, last.arg[1], last.arg[2] + d) = last.arg[4]
    /\ At(mem, last.arg[1], last.arg[2]) # last.arg[4]

\* --------------------------------------------------------------------- C16
\* C16: fillTriangle with three vertices of the same y, in any order, paints
\* exactly the pixels of row y that are on the surface with column from
\* min(x0,x1,x2) to max(x0,x1,x2) inclusive, and no other pixel.
C16_FlatTriangleIsOneSpan ==
    [][(last'.op = "fillTriangle" /\ last'.arg[2] = last'.arg[4]
                                  /\ last'.arg[4] = last'.arg[6]) =>
          LET xs == {last'.arg[1], last'.arg[3], last'.arg[5]}
              y  == last'.arg[2]
              lo == CHOOSE a \in xs : \A b \in xs : a <= b
              hi == CHOOSE a \in xs : \A b \in xs : a >= b
              span == IF y \in Rows
                        THEN {<<c, y>> : c \in {c \in Columns : lo <= c /\ c <= hi}}
                        ELSE {}
          IN  PaintedExactly(span, last'.arg[7])
      ]_vars

\* --------------------------------------------------------------------- C17
\* the radius min(w,h)/2, the division truncating
HalfSide(w, h) == CDiv(IF w < h THEN w ELSE h, 2)

\* C17: for all x, y, w, h and every radius r > min(w,h)/2, drawRoundRect
\* and fillRoundRect called with r leave exactly the surface the same call
\* with radius min(w,h)/2 leaves.
C17_RadiusCappedAtHalfSide ==
    [][(last'.op \in {"drawRoundRect", "fillRoundRect"}
        /\ last'.arg[5] > HalfSide(last'.arg[3], last'.arg[4])) =>
          LET x == last'.arg[1]
              y == last'.arg[2]
              w == last'.arg[3]
              h == last'.arg[4]
              color == last'.arg[6]
              capped == IF last'.op = "drawRoundRect"
                          THEN DrawRoundRectImpl(Cur, x, y, w, h, HalfSide(w, h), color)
                          ELSE FillRoundRectImpl(Cur, x, y, w, h, HalfSide(w, h), color)
          IN  /\ ub' = capped.ub
              /\ capped.ub = "none" => mem' = capped.mem
      ]_vars

\* a rounded rectangle at least 4 by 4 was filled with a radius above half
\* its side and shows on a surface of another colour
C17_Witness ==
    /\ Returned("fillRoundRect")
    /\ last.arg[3] >= 4 /\ last.arg[4] >= 4
    /\ last.arg[5] > HalfSide(last.arg[3], last.arg[4])
    /\ \E x \in Columns, y \in Rows : At(mem, x, y) = last.arg[6]
    /\ \E x \in Columns, y \in Rows : At(mem, x, y) # last.arg[6]

\* --------------------------------------------------------------------- C18
\* C18: for all 8-bit r, g, b, color565(r,g,b) equals
\* ((r >> 3) << 11) | ((g >> 2) << 5) | (b >> 3): low bits are dropped
\* without rounding and the result fits 16 bits, so white gives 0xFFFF and
\* black 0; color565(rgb24) equals color565 of the three bytes of rgb24.
C18_Color565Truncates ==
    /\ last.op = "color565" =>
          LET r == last.arg[1]
              g == last.arg[2]
              b == last.arg[3]
          IN  /\ last.ret = BitOr(BitOr(Shl(Shr(r, 3), 11), Shl(Shr(g, 2), 5)),
                                  Shr(b, 3))
              /\ last.ret = (r \div 8) * 2048 + (g \div 4) * 32 + (b \div 8)
              /\ last.ret \in 0..65535
              /\ (r = 255 /\ g = 255 /\ b = 255) => last.ret = 65535
              /\ (r = 0 /\ g = 0 /\ b = 0) => last.ret = 0
    /\ last.op = "color565rgb" =>
          LET rgb == last.arg[1]
          IN  last.ret = Color565((rgb \div 65536) % 256, (rgb \div 256) % 256,
                                  rgb % 256)

\* a channel value with low bits set was converted: 131 = 16 * 8 + 3
C18_Witness ==
    /\ last.op = "color565"
    /\ last.arg = <<131, 131, 131>>
    /\ last.ret = 16 * 2048 + 32 * 32 + 16

\* --------------------------------------------------------------------- C19
\* the byte has a glyph: any byte but '\n' and '\r' in the built-in font
\* ('?' stands for the unprintable ones), a byte of the table in a custom font
HasGlyph(c) == c \notin {10, 13} /\ (m_pFont = NULL \/ InTable(c))

\* built-in: fixed 6; custom: the glyph's xAdvance
Advance(c) ==
    IF m_pFont # NULL
      THEN FontAt[m_pFont].glyph[c - FontAt[m_pFont].first + 1].xAdvance
      ELSE 6

\* the pixels the character c can cover when it is drawn at (x, y)
CellBox(x, y, c) ==
    IF m_pFont = NULL
      THEN {<<px, py>> \in Columns \X Rows :
               /\ px >= x /\ px < x + 6 * m_textSizeX
               /\ py >= y /\ py < y + 8 * m_textSizeY}
      ELSE LET g == FontAt[m_pFont].glyph[c - FontAt[m_pFont].first + 1]
           IN  {<<px, py>> \in Columns \X Rows :
                  /\ px >= x + g.xOffset
                  /\ px < x + g.xOffset + g.width * m_textSizeX
                  /\ py >= y + g.yOffset
                  /\ py < y + g.yOffset + g.height * m_textSizeY}

\* C19: in a writeText call that returns, for the last byte c of the string,
\* a byte that has a glyph, processed with the cursor at (cx, cy) where the
\* bytes before it left it: with wrap enabled and
\* cx + textSizeX * advance > width, the cursor y becomes
\* cy + textSizeY * lineAdvance (the cursor is a 16-bit integer) and the
\* cursor x ends at textSizeX * advance, the surface is the one drawChar
\* leaves when it draws c at (0, new y), and no pixel outside the cell at
\* (0, new y) has changed; with wrap disabled the cursor y stays cy, the
\* cursor x ends at cx + textSizeX * advance and c is drawn at (cx, cy).
C19_WrapBreaksBeforeGlyph ==
    [][(last'.op = "writeText" /\ ub' = "none") =>
          \A pre \in {WriteTextLoop(CurText, SubSeq(last'.arg, 1, Len(last'.arg) - 1), 1)} :
          \A c \in {last'.arg[Len(last'.arg)]} :
          HasGlyph(c) =>
          \A ny \in {I16(pre.cy + m_textSizeY * LineAdvance)} :
          \A box \in {CellBox(0, ny, c)} :
          \A before \in {pre.mem} :
            /\ (m_textWrap /\ pre.cx + m_textSizeX * Advance(c) > m_width) =>
                  /\ m_cursorY' = ny
                  /\ m_cursorX' = m_textSizeX * Advance(c)
                  /\ mem' = DrawCharImpl(pre, 0, ny, c, m_textColor, m_textBgColor,
                                         m_textSizeX, m_textSizeY).mem
                  /\ \A x \in Columns, y \in Rows :
                        At(mem', x, y) # At(before, x, y) => <<x, y>> \in box
            /\ ~m_textWrap =>
                  /\ m_cursorY' = pre.cy
                  /\ m_cursorX' = I16(pre.cx + m_textSizeX * Advance(c))
                  /\ mem' = DrawCharImpl(pre, pre.cx, pre.cy, c, m_textColor,
                                         m_textBgColor, m_textSizeX, m_textSizeY).mem
      ]_vars

\* 'A' of the built-in font at size 1 was written with wrap enabled from a
\* cursor whose x was past column 2: the cursor is one line lower and one
\* advance from the left edge, the top row of 'A' shows in row 8 at the left
\* edge, and row 1 of column 3, which 'A' drawn at x = 3 covers, kept colour 0
C19_Witness ==
    /\ Returned("writeText")
    /\ last.arg = <<65>>
    /\ m_textWrap /\ m_pFont = NULL
    /\ m_textSizeX = 1 /\ m_textSizeY = 1
    /\ m_cursorX = 6 /\ m_cursorY = 8
    /\ m_textColor = 1
    /\ At(mem, 1, 8) = 1
    /\ At(mem, 3, 1) = 0

\* --------------------------------------------------------------------- C20
\* C20: with a custom font set, a writeText call on one byte other than
\* '\n' and '\r' whose code is outside [first, last] reads no glyph-table
\* entry outside indices 0..last-first (nothing undefined happens) and
\* leaves cursor x, cursor y and the surface unchanged.
C20_MissingGlyphSkipped ==
    [][(/\ last'.op = "writeText"
        /\ m_pFont # NULL
        /\ Len(last'.arg) = 1
        /\ last'.arg[1] \notin {10, 13}
        /\ ~InTable(last'.arg[1])) =>
          /\ ub' = "none"
          /\ m_cursorX' = m_cursorX
          /\ m_cursorY' = m_cursorY
          /\ mem' = mem
      ]_vars

\* --------------------------------------------------------------------- C21
\* the bit of column col, row row of the built-in glyph of c is set; the
\* spacer column 5 has no set bit
GlyphBit(c, col, row) ==
    /\ col < 5
    /\ Shr(s_font[IF c < 32 \/ c > 126 THEN 63 ELSE c][col + 1], row) % 2 = 1

\* C21: after drawChar(x, y, c, color, bg, size_x, size_y) in the built-in
\* font, every pixel of the surface that lies in the scaled 6 by 8 cell at
\* (x, y) and belongs to an unset bit or to the spacer column is unchanged
\* when bg = color, and has the colour bg when bg # color.
C21_EqualColoursAreTransparent ==
    [][(last'.op = "drawChar" /\ ub' = "none" /\ m_pFont = NULL) =>
          \A x \in {last'.arg[1]}, y \in {last'.arg[2]}, c \in {last'.arg[3]},
             color \in {last'.arg[4]}, bg \in {last'.arg[5]},
             size_x \in {last'.arg[6]}, size_y \in {last'.arg[7]} :
          \A px \in Columns, py \in Rows :
             (/\ px >= x /\ px < x + 6 * size_x
              /\ py >= y /\ py < y + 8 * size_y
              /\ ~GlyphBit(c, (px - x) \div size_x, (py - y) \div size_y)) =>
                 IF bg = color THEN At(mem', px, py) = At(mem, px, py)
                               ELSE At(mem', px, py) = bg
      ]_vars

\* --------------------------------------------------------------------- C22
\* C22: after any sequence of setRotation calls, m_rotation is the last
\* argument mod 4, m_width and m_height are the framebuffer's height and
\* width when m_rotation is 1 or 3 and its width and height when it is 0 or
\* 2, and a setRotation call changes no pixel.
C22_RotationState ==
    [][last'.op = "setRotation" =>
          /\ m_rotation' = last'.arg % 4
          /\ <<m_width', m_height'>> =
                IF m_rotation' \in {1, 3}
                  THEN <<m_pFrameBuffer.height, m_pFrameBuffer.width>>
                  ELSE <<m_pFrameBuffer.width, m_pFrameBuffer.height>>
          /\ mem' = mem
      ]_vars

\* --------------------------------------------------------------------- C23
\* C23: a drawPixel made while the active drawing pointer is a live buffer
\* enableMultiBuffer allocated writes no element outside that buffer, and
\* while it is, for every (x, y) that passes the bounds check the index
\* y * (pitch / 2) + x is below the width * height pixels allocated.
C23_WriteInsideAllocation ==
    [][(m_pBuffer \in heap /\ last'.op = "drawPixel") =>
          /\ ub' # "out_of_bounds"
          /\ \A x \in Columns, y \in Rows : y * Stride + x < PixelCount
      ]_vars

\* --------------------------------------------------------------------- C24
\* C24: on a framebuffer that is not square, after any setRotation calls, no
\* drawPixel or getPixel whose coordinates pass the bounds check addresses
\* an element outside the storage of the active buffer.
C24_RotatedAccessInsideStorage ==
    (m_pFrameBuffer.width # m_pFrameBuffer.height) => ub # "out_of_bounds"

\* --------------------------------------------------------------------- C25
\* the scanlines of the two passes of fillTriangle on vertices sorted by y:
\* for (y = y0; y <= last; y++) and for (y = y1; y <= y2; y++)
UpperRows(y0, y1, y2) == y0..(IF y1 = y2 THEN y1 ELSE y1 - 1)
LowerRows(y0, y1, y2) == y1..y2

\* C25: a fillTriangle call whose three y values are not all equal divides
\* by no zero edge height, and with y0 <= y1 <= y2 the sorted y values, its
\* upper pass fills the rows y0..y1-1 (y0..y1 when y1 = y2), its lower pass
\* the remaining rows up to y2, and no row is filled by both passes.
C25_EveryScanlineOnce ==
    [][(last'.op = "fillTriangle"
        /\ ~(last'.arg[2] = last'.arg[4] /\ last'.arg[4] = last'.arg[6])) =>
          \A v \in {SortByY(<<last'.arg[1], last'.arg[2]>>,
                            <<last'.arg[3], last'.arg[4]>>,
                            <<last'.arg[5], last'.arg[6]>>)} :
          \A y0 \in {v[1][2]}, y1 \in {v[2][2]}, y2 \in {v[3][2]} :
             /\ ub' # "division_by_zero"
             /\ UpperRows(y0, y1, y2) \cup LowerRows(y0, y1, y2) = y0..y2
             /\ UpperRows(y0, y1, y2) \cap LowerRows(y0, y1, y2) = {}
      ]_vars

\* --------------------------------------------------------------------- C26
\* the drawing pointer is the data pointer of the slot at the draw index
DrawPointerTracks ==
    m_multiBufferEnabled =>
        /\ m_drawBufferIndex \in Slots
        /\ m_pBuffer = m_buffers[m_drawBufferIndex].pData

\* C26: whenever multi-buffering is enabled, the active drawing pointer is
\* the data pointer of the slot at the draw index after every operation,
\* attachExternalBuffer and detachExternalBuffer on the current draw slot
\* included: an operation that starts with the two equal ends with the two
\* equal.
C26_DrawPointerFollowsDrawSlot ==
    [][(Running /\ ub' = "none" /\ DrawPointerTracks) => DrawPointerTracks']_vars

\* --------------------------------------------------------------------- C27
\* p is a block the engine allocated and has freed
Freed(p) == p \in HeapAddrs /\ p \notin heap

\* C27: after any sequence of enableMultiBuffer (succeeding or failing),
\* attachExternalBuffer, detachExternalBuffer and swapBuffers, neither the
\* active drawing pointer nor a slot below bufferCount refers to memory the
\* engine has freed, and no operation reads or writes a freed buffer.
C27_NoFreedBufferReferenced ==
    /\ ub # "use_after_free"
    /\ Running =>
         /\ ~Freed(m_pBuffer)
         /\ \A i \in Slots : i < m_bufferCount => ~Freed(m_buffers[i].pData)

\* --------------------------------------------------------------------- C28
\* C28: whenever multi-buffering is enabled, every slot below bufferCount
\* has a non-null data pointer, also after attachExternalBuffer at an index
\* >= bufferCount and after detachExternalBuffer: an operation that starts
\* with every such slot non-null ends with every such slot non-null, and
\* swapBuffers never copies from or zero-fills a null buffer.
SlotsBacked ==
    m_multiBufferEnabled =>
        \A i \in Slots : i < m_bufferCount => m_buffers[i].pData # NULL

C28_EnabledSlotsNonNull ==
    [][(Running /\ IndexBounds /\ SlotsBacked) =>
         /\ ub' # "null_deref"
         /\ ub' = "none" => SlotsBacked']_vars

\* --------------------------------------------------------------------- C29
\* C29: clearBuffer(i, color) with i that is neither -1, -2 nor in
\* [0, bufferCount), that is i <= -3 or i >= bufferCount, is a no-op: it
\* accesses no slot outside indices 0..2 and changes no buffer.
C29_ClearOtherIndexIsNoOp ==
    [][last'.op = "clearBuffer" =>
        \A i \in (0 - 3)..MaxIndex, color \in Colors :
          ( /\ (i <= 0 - 3 \/ i >= m_bufferCount)
            /\ clearBufferCall(i, color) ) =>
              /\ ub' # "slot_out_of_range"
              /\ mem' = mem
              /\ m_buffers' = m_buffers
      ]_vars

\* --------------------------------------------------------------------- C30
\* C30: immediately after construction, before any other call, the
\* multi-buffer state is the defined single-buffer state: isMultiBuffered()
\* is false, getBufferCount() is 1, draw index = display index = 0, slot 0
\* is not owned and refers to the hardware surface; so the first
\* enableMultiBuffer call frees nothing.
C30_ConstructedSingleBuffer ==
    [][last.op = "construct" =>
         /\ ~m_multiBufferEnabled
         /\ m_bufferCount = 1
         /\ m_drawBufferIndex = 0
         /\ m_displayBufferIndex = 0
         /\ m_buffers[0].pData = HW
         /\ ~m_buffers[0].bOwned
         /\ last'.op = "enableMultiBuffer" =>
              ub' \notin {"free_not_allocated", "double_free"}
      ]_vars

====
